---- MODULE Spec2Model ----
(***************************************************************************)
(* Round-robin fixture generation and standings computation of the         *)
(* tournament manager (src/utils/tournamentUtils.ts).                      *)
(*                                                                         *)
(* The schedule handlers of src/App.tsx are modelled on top of them.       *)
(*                                                                         *)
(* The specifications of this module:                                      *)
(*   SpecGen      calls generateRoundRobinMatches on bounded inputs        *)
(*   SpecStand    calls calculateStandings on bounded inputs               *)
(*   SpecPure     calls either of the two on arguments held in the state   *)
(*   SpecApp      runs handleSelectCategory, handleGenerateMatches and     *)
(*                handleUpdateMatch on a championship of two categories    *)
(*   SpecCrud     runs the team, category and schedule handlers and        *)
(*                confirmNewChampionship from an empty championship        *)
(*   SpecDelete   deletes teams and categories of the championship of      *)
(*                two categories                                           *)
(*   SpecCard     saves score sheets and dates from the match cards        *)
(*   SpecTeamEdit edits teams whose matches are generated and played       *)
(*   SpecLoad     picks, confirms and cancels championship files           *)
(*   SpecSummary  runs TournamentSummary against the summary service       *)
(***************************************************************************)
EXTENDS Integers, Sequences, FiniteSets, TLC

VARIABLES pc, grTeams, grCategory, grTwoLegged, grResult,
          csTeams, csMatches, csResult,
          appTeams, appCategories, appMatches, activeCategoryId,
          appPlayers, viewingPlayerId, maximizedWidget, isPanelCollapsed,
          isNewChampionshipConfirmOpen, isLoadConfirmOpen, pendingChampionshipData,
          summary, isLoading, aiCall, summaryResult

vars == <<pc, grTeams, grCategory, grTwoLegged, grResult, csTeams, csMatches, csResult,
          appTeams, appCategories, appMatches, activeCategoryId,
          appPlayers, viewingPlayerId, maximizedWidget, isPanelCollapsed,
          isNewChampionshipConfirmOpen, isLoadConfirmOpen, pendingChampionshipData,
          summary, isLoading, aiCall, summaryResult>>

\* the persistent state of App that the schedule handlers read and write:
\* teams, categories, matches and activeCategoryId of the component
appVars == <<appTeams, appCategories, appMatches, activeCategoryId>>

\* the rest of App's state: the players, the view state and the two dialogs
shellVars == <<appPlayers, viewingPlayerId, maximizedWidget, isPanelCollapsed,
               isNewChampionshipConfirmOpen, isLoadConfirmOpen, pendingChampionshipData>>

\* the state of TournamentSummary, the request it sent to the model and the
\* settled value of the generateSummary promise it awaits
tsVars == <<summary, isLoading, aiCall, summaryResult>>

grVars == <<grTeams, grCategory, grTwoLegged, grResult>>

csVars == <<csTeams, csMatches, csResult>>

(***************************************************************************)
(* Bounds                                                                  *)
(***************************************************************************)
\* longest team list handed to generateRoundRobinMatches
MaxTeams == 3

\* longest match list handed to calculateStandings
MaxMatches == 2

\* most teams and most categories the add handlers are run up to
MaxAppTeams == 2

MaxAppCategories == 1

(***************************************************************************)
(* types.ts                                                                *)
(***************************************************************************)
Pending == "Pending"

Finished == "Finished"

\* `null` of a score (number | null); real scores are never negative
NullScore == 0 - 1

\* `null` of a winner (Team | null)
NullTeam == [id |-> "", name |-> "", playerIds |-> <<>>]

Team(id, name, playerIds) == [id |-> id, name |-> name, playerIds |-> playerIds]

MatchSet(s1, s2) == [team1 |-> s1, team2 |-> s2]

Category(id, name, teamIds) == [id |-> id, name |-> name, teamIds |-> teamIds]

Match(id, categoryId, team1, team2, sets, winner, status, date) ==
  [id |-> id, categoryId |-> categoryId, team1 |-> team1, team2 |-> team2,
   sets |-> sets, winner |-> winner, status |-> status, date |-> date]

Standings(team, played, wins, losses, points, pointsFor, pointsAgainst, pointsDifference) ==
  [team |-> team, played |-> played, wins |-> wins, losses |-> losses,
   points |-> points, pointsFor |-> pointsFor, pointsAgainst |-> pointsAgainst,
   pointsDifference |-> pointsDifference]

(***************************************************************************)
(* Input pools                                                             *)
(***************************************************************************)
TeamA == Team("t1", "A", <<"p1", "p2">>)

TeamB == Team("t2", "B", <<"p3", "p4">>)

TeamC == Team("t3", "C", <<"p5">>)

TeamD == Team("t4", "D", <<>>)

\* a second team object carrying the id of TeamA
TeamA2 == Team("t1", "A2", <<"p6">>)

TeamPool == {TeamA, TeamB, TeamC, TeamD, TeamA2}

CategoryPool == {Category("c1", "Cat1", <<"t1", "t2", "t3">>), Category("c2", "Cat2", <<>>)}

Range(s) == {s[k] : k \in DOMAIN s}

\* sequences over S without repeated elements, of length n
InjSeqs(S, n) == {s \in [1..n -> S] : \A a, b \in 1..n : a # b => s[a] # s[b]}

TeamLists(max) == UNION {InjSeqs(TeamPool, n) : n \in 0..max}

DistinctIds(teams) ==
  \A a, b \in DOMAIN teams : a # b => teams[a].id # teams[b].id

(***************************************************************************)
(* generateRoundRobinMatches                                               *)
(***************************************************************************)
EmptySets == <<MatchSet(NullScore, NullScore), MatchSet(NullScore, NullScore),
               MatchSet(NullScore, NullScore)>>

\* an identifier made of the clock reading only
MatchId_ClockOnly(now, i, j, leg) == <<"match", now>>

\* `match-${Date.now()}-${i}-${j}-${leg}`: the fields are non-negative
\* integers joined by '-', so the string is determined by, and determines,
\* the tuple of its fields
MatchId(now, i, j, leg) == <<"match", now, i, j, leg>>

\* PairFixtures forgetting the second leg
PairFixtures_OneLeg(teams, category, twoLegged, clock, i, j, pushed) ==
  <<Match(MatchId(clock[pushed + 1], i, j, 1), category.id,
          teams[i + 1], teams[j + 1], EmptySets, NullTeam, Pending, "")>>

\* PairFixtures with the second leg not swapped
PairFixtures_NoSwap(teams, category, twoLegged, clock, i, j, pushed) ==
  LET match1 == Match(MatchId(clock[pushed + 1], i, j, 1), category.id,
                      teams[i + 1], teams[j + 1], EmptySets, NullTeam, Pending, "")
      match2 == Match(MatchId(clock[pushed + 2], j, i, 2), category.id,
                      teams[i + 1], teams[j + 1], EmptySets, NullTeam, Pending, "")
  IN IF twoLegged THEN <<match1, match2>> ELSE <<match1>>

\* PairFixtures with the second leg missing its category
PairFixtures_SecondLegNoCategory(teams, category, twoLegged, clock, i, j, pushed) ==
  LET match1 == Match(MatchId(clock[pushed + 1], i, j, 1), category.id,
                      teams[i + 1], teams[j + 1], EmptySets, NullTeam, Pending, "")
      match2 == Match(MatchId(clock[pushed + 2], j, i, 2), "",
                      teams[j + 1], teams[i + 1], EmptySets, NullTeam, Pending, "")
  IN IF twoLegged THEN <<match1, match2>> ELSE <<match1>>

\* body of the inner loop for indices i < j (0-based as in the source);
\* clock[r] is the value returned by the r-th Date.now() of the call
PairFixtures(teams, category, twoLegged, clock, i, j, pushed) ==
  LET match1 == Match(MatchId(clock[pushed + 1], i, j, 1), category.id,
                      teams[i + 1], teams[j + 1], EmptySets, NullTeam, Pending, "")
      match2 == Match(MatchId(clock[pushed + 2], j, i, 2), category.id,
                      teams[j + 1], teams[i + 1], EmptySets, NullTeam, Pending, "")
  IN IF twoLegged THEN <<match1, match2>> ELSE <<match1>>

RECURSIVE InnerLoop(_, _, _, _, _, _, _)
InnerLoop(teams, category, twoLegged, clock, i, j, matches) ==
  IF j < Len(teams)
  THEN InnerLoop(teams, category, twoLegged, clock, i, j + 1,
                 matches \o PairFixtures(teams, category, twoLegged, clock, i, j, Len(matches)))
  ELSE matches

RECURSIVE OuterLoop(_, _, _, _, _, _)
OuterLoop(teams, category, twoLegged, clock, i, matches) ==
  IF i < Len(teams)
  THEN OuterLoop(teams, category, twoLegged, clock, i + 1,
                 InnerLoop(teams, category, twoLegged, clock, i, i + 1, matches))
  ELSE matches

\* fixtures in generation order, before the shuffle
UnshuffledMatches(teams, category, twoLegged, clock) ==
  OuterLoop(teams, category, twoLegged, clock, 0, <<>>)

RECURSIVE Gcd(_, _)
Gcd(a, b) == IF b = 0 THEN a ELSE Gcd(b, a % b)

\* matches.sort(() => Math.random() - 0.5): the comparator is random, so the
\* outcome is some rearrangement of the array.  The rearrangements k -> a*k+b
\* (mod n) are enumerated; for n <= 3 these are all n! of them.
ShuffleOrders(n) ==
  IF n = 0 THEN {<<>>}
  ELSE {[k \in 1..n |-> ((a * (k - 1) + b) % n) + 1] :
           a \in {x \in 1..n : Gcd(x, n) = 1}, b \in 0..(n - 1)}

Shuffle(matches, order) == [k \in 1..Len(matches) |-> matches[order[k]]]

\* generateRoundRobinMatches giving a lone team a fixture against itself
generateRoundRobinMatches_LoneTeamFixture(teams, category, twoLegged, clock, order) ==
  IF Len(teams) = 0 THEN <<>>
  ELSE IF Len(teams) = 1
  THEN <<Match(MatchId(clock[1], 0, 0, 1), category.id, teams[1], teams[1],
               EmptySets, NullTeam, Pending, "")>>
  ELSE Shuffle(UnshuffledMatches(teams, category, twoLegged, clock), order)

generateRoundRobinMatches(teams, category, twoLegged, clock, order) ==
  IF Len(teams) < 2 THEN <<>>
  ELSE Shuffle(UnshuffledMatches(teams, category, twoLegged, clock), order)

\* n successive readings of Date.now(), in ms since the call began: the
\* clock stays where it is or moves on by a millisecond after the c-th reading
ClockReadings(n) ==
  {[r \in 1..n |-> IF r <= c THEN 0 ELSE 1] : c \in 0..n}

\* an upper bound on the number of Date.now() calls of one call: two for
\* each pair of teams
MaxReads(teams) == IF Len(teams) < 2 THEN 1 ELSE Len(teams) * (Len(teams) - 1)

\* one call: the arguments are those of the state, the clock readings and
\* the outcome of the random sort are chosen by the environment
GenerateRoundRobinMatches ==
  /\ pc = "call"
  /\ \E clock \in ClockReadings(MaxReads(grTeams)) :
       \E order \in ShuffleOrders(Len(UnshuffledMatches(grTeams, grCategory, grTwoLegged, clock))) :
         grResult' = generateRoundRobinMatches(grTeams, grCategory, grTwoLegged, clock, order)
  /\ pc' = "done"
  /\ UNCHANGED <<grTeams, grCategory, grTwoLegged, csVars, appVars, shellVars, tsVars>>

(***************************************************************************)
(* calculateStandings                                                      *)
(***************************************************************************)
\* A Map<string, Standings> is a sequence of [key, value] entries in
\* insertion order; set() on a present key replaces the value in place.
MapHas(map, key) == \E k \in DOMAIN map : map[k].key = key

MapSet(map, key, value) ==
  IF MapHas(map, key)
  THEN [k \in DOMAIN map |->
          IF map[k].key = key THEN [key |-> key, value |-> value] ELSE map[k]]
  ELSE Append(map, [key |-> key, value |-> value])

MapValues(map) == [k \in DOMAIN map |-> map[k].value]

\* `record.field += n` on the Standings object stored under key
AddTo(map, key, field, n) ==
  [k \in DOMAIN map |->
     IF map[k].key = key
     THEN [key |-> key, value |-> [map[k].value EXCEPT ![field] = @ + n]]
     ELSE map[k]]

\* `record.pointsDifference = record.pointsFor - record.pointsAgainst`
SetDifference(map, key) ==
  [k \in DOMAIN map |->
     IF map[k].key = key
     THEN [key |-> key,
           value |-> [map[k].value EXCEPT
                        !.pointsDifference = map[k].value.pointsFor - map[k].value.pointsAgainst]]
     ELSE map[k]]

ZeroStandings(team) == Standings(team, 0, 0, 0, 0, 0, 0, 0)

RECURSIVE NewStandingsMap(_, _, _)
NewStandingsMap(teams, k, map) ==
  IF k > Len(teams) THEN map
  ELSE NewStandingsMap(teams, k + 1, MapSet(map, teams[k].id, ZeroStandings(teams[k])))

TeamsSome(teams, id) == \E k \in DOMAIN teams : teams[k].id = id

\* IsRelevant looking at team1 only
IsRelevant_Team1Only(teams, match) == TeamsSome(teams, match.team1.id)

IsRelevant(teams, match) ==
  TeamsSome(teams, match.team1.id) /\ TeamsSome(teams, match.team2.id)

RelevantMatches(teams, matches) ==
  SelectSeq(matches, LAMBDA match : IsRelevant(teams, match))

\* SetTally giving a drawn set to team2
RECURSIVE SetTally_TieToTeam2(_, _, _)
SetTally_TieToTeam2(sets, k, acc) ==
  IF k > Len(sets) THEN acc
  ELSE LET set == sets[k]
       IN IF set.team1 # NullScore /\ set.team2 # NullScore
          THEN SetTally_TieToTeam2(sets, k + 1,
                 [team1SetWins |-> acc.team1SetWins + (IF set.team1 > set.team2 THEN 1 ELSE 0),
                  team2SetWins |-> acc.team2SetWins + (IF set.team1 > set.team2 THEN 0 ELSE 1),
                  team1TotalPoints |-> acc.team1TotalPoints + set.team1,
                  team2TotalPoints |-> acc.team2TotalPoints + set.team2])
          ELSE SetTally_TieToTeam2(sets, k + 1, acc)

\* the tallies of match.sets.forEach
RECURSIVE SetTally(_, _, _)
SetTally(sets, k, acc) ==
  IF k > Len(sets) THEN acc
  ELSE LET set == sets[k]
       IN IF set.team1 # NullScore /\ set.team2 # NullScore
          THEN SetTally(sets, k + 1,
                 [team1SetWins |-> acc.team1SetWins + (IF set.team1 > set.team2 THEN 1 ELSE 0),
                  team2SetWins |-> acc.team2SetWins
                                     + (IF set.team1 > set.team2 THEN 0
                                        ELSE IF set.team2 > set.team1 THEN 1 ELSE 0),
                  team1TotalPoints |-> acc.team1TotalPoints + set.team1,
                  team2TotalPoints |-> acc.team2TotalPoints + set.team2])
          ELSE SetTally(sets, k + 1, acc)

Tally(match) ==
  SetTally(match.sets, 1,
           [team1SetWins |-> 0, team2SetWins |-> 0,
            team1TotalPoints |-> 0, team2TotalPoints |-> 0])

Max(a, b) == IF a >= b THEN a ELSE b

Min(a, b) == IF a <= b THEN a ELSE b

\* AwardPoints crediting the 3 points of a 2-0 to the loser
AwardPoints_ToLoser(map, winnerId, loserId, winnerSets, loserSets) ==
  IF winnerSets = 2 /\ loserSets = 0
  THEN AddTo(map, loserId, "points", 3)
  ELSE IF winnerSets = 2 /\ loserSets = 1
       THEN AddTo(AddTo(map, winnerId, "points", 2), loserId, "points", 1)
       ELSE map

\* AwardPoints giving 3-0 for every two-set win
AwardPoints_AlwaysThree(map, winnerId, loserId, winnerSets, loserSets) ==
  IF winnerSets = 2 THEN AddTo(map, winnerId, "points", 3) ELSE map

\* points awarded from the set tally
AwardPoints(map, winnerId, loserId, winnerSets, loserSets) ==
  IF winnerSets = 2 /\ loserSets = 0
  THEN AddTo(map, winnerId, "points", 3)
  ELSE IF winnerSets = 2 /\ loserSets = 1
       THEN AddTo(AddTo(map, winnerId, "points", 2), loserId, "points", 1)
       ELSE map

\* CountResult forgetting the loser's played
CountResult_LoserNotPlayed(map, winnerId, loserId) ==
  AddTo(AddTo(AddTo(map, winnerId, "played", 1), winnerId, "wins", 1),
        loserId, "losses", 1)

\* played / wins / losses of the two records
CountResult(map, winnerId, loserId) ==
  AddTo(AddTo(AddTo(AddTo(map, winnerId, "played", 1), winnerId, "wins", 1),
              loserId, "played", 1), loserId, "losses", 1)

\* AddScores taking the winner for team1 whatever isTeam1Winner says
AddScores_WinnerIsTeam1(map, winnerId, loserId, isTeam1Winner, team1TotalPoints, team2TotalPoints) ==
  AddTo(AddTo(AddTo(AddTo(map, winnerId, "pointsFor", team1TotalPoints),
                    winnerId, "pointsAgainst", team2TotalPoints),
              loserId, "pointsFor", team2TotalPoints),
        loserId, "pointsAgainst", team1TotalPoints)

\* pointsFor / pointsAgainst of the two records
AddScores(map, winnerId, loserId, isTeam1Winner, team1TotalPoints, team2TotalPoints) ==
  IF isTeam1Winner
  THEN AddTo(AddTo(AddTo(AddTo(map, winnerId, "pointsFor", team1TotalPoints),
                         winnerId, "pointsAgainst", team2TotalPoints),
                   loserId, "pointsFor", team2TotalPoints),
             loserId, "pointsAgainst", team1TotalPoints)
  ELSE AddTo(AddTo(AddTo(AddTo(map, winnerId, "pointsFor", team2TotalPoints),
                         winnerId, "pointsAgainst", team1TotalPoints),
                   loserId, "pointsFor", team1TotalPoints),
             loserId, "pointsAgainst", team2TotalPoints)

\* UpdateDifferences leaving the loser's difference stale
UpdateDifferences_WinnerOnly(map, winnerId, loserId) == SetDifference(map, winnerId)

UpdateDifferences(map, winnerId, loserId) ==
  SetDifference(SetDifference(map, winnerId), loserId)

\* SkipsMatch looking at the winner only
SkipsMatch_WinnerOnly(match) == match.winner = NullTeam

\* the early return for a match that is not finished or has no winner
SkipsMatch(match) == match.status # Finished \/ match.winner = NullTeam

\* the callback of relevantMatches.forEach
FoldMatch(map, match) ==
  IF SkipsMatch(match) THEN map
  ELSE LET winnerId == match.winner.id
           loserId == IF winnerId = match.team1.id THEN match.team2.id ELSE match.team1.id
       IN IF ~MapHas(map, winnerId) \/ ~MapHas(map, loserId) THEN map
          ELSE LET t == Tally(match)
                   isTeam1Winner == match.team1.id = winnerId
                   winnerSets == Max(t.team1SetWins, t.team2SetWins)
                   loserSets == Min(t.team1SetWins, t.team2SetWins)
                   counted == CountResult(map, winnerId, loserId)
                   awarded == AwardPoints(counted, winnerId, loserId, winnerSets, loserSets)
                   scored == AddScores(awarded, winnerId, loserId, isTeam1Winner,
                                       t.team1TotalPoints, t.team2TotalPoints)
               IN UpdateDifferences(scored, winnerId, loserId)

RECURSIVE FoldMatches(_, _, _)
FoldMatches(map, matches, k) ==
  IF k > Len(matches) THEN map
  ELSE FoldMatches(FoldMatch(map, matches[k]), matches, k + 1)

\* Compare without the tie-breaks
Compare_PointsOnly(a, b) == b.points - a.points

\* the comparator of standings.sort: negative when a goes first
Compare(a, b) ==
  IF b.points # a.points THEN b.points - a.points
  ELSE IF b.wins # a.wins THEN b.wins - a.wins
  ELSE IF b.pointsDifference # a.pointsDifference
       THEN b.pointsDifference - a.pointsDifference
  ELSE b.pointsFor - a.pointsFor

\* Array.prototype.sort is stable: x goes after every element that does not
\* compare greater than it
RECURSIVE InsertSorted(_, _, _)
InsertSorted(sorted, x, k) ==
  IF k > Len(sorted) THEN Append(sorted, x)
  ELSE IF Compare(sorted[k], x) > 0
       THEN SubSeq(sorted, 1, k - 1) \o <<x>> \o SubSeq(sorted, k, Len(sorted))
       ELSE InsertSorted(sorted, x, k + 1)

RECURSIVE SortStandings(_, _, _)
SortStandings(standings, k, sorted) ==
  IF k > Len(standings) THEN sorted
  ELSE SortStandings(standings, k + 1, InsertSorted(sorted, standings[k], 1))

calculateStandings(teams, matches) ==
  LET standingsMap == FoldMatches(NewStandingsMap(teams, 1, <<>>),
                                  RelevantMatches(teams, matches), 1)
  IN SortStandings(MapValues(standingsMap), 1, <<>>)

(***************************************************************************)
(* Inputs of calculateStandings                                            *)
(***************************************************************************)
StandingsTeamPool == {TeamA, TeamB, TeamC}

StandingsTeamLists == UNION {InjSeqs(StandingsTeamPool, n) : n \in 0..MaxTeams}

\* the two teams of a match, and a team that plays in neither role
Pairings == {<<TeamA, TeamB, TeamC>>, <<TeamC, TeamA, TeamB>>}

Sets3(a1, a2, b1, b2, c1, c2) == <<MatchSet(a1, a2), MatchSet(b1, b2), MatchSet(c1, c2)>>

\* [sets, status, winner]: winner is "team1", "team2", "other" or "null"
ResultPool ==
  { [sets |-> Sets3(18, 10, 18, 10, NullScore, NullScore), status |-> Finished, winner |-> "team1"],
    [sets |-> Sets3(10, 18, 17, NullScore, 9, 16), status |-> Finished, winner |-> "team2"],
    [sets |-> Sets3(18, 10, 10, 18, 11, 5), status |-> Finished, winner |-> "team1"],
    [sets |-> Sets3(18, 12, 7, 18, 4, 16), status |-> Finished, winner |-> "team2"],
    [sets |-> Sets3(18, 10, 18, 3, 16, 5), status |-> Finished, winner |-> "team1"],
    [sets |-> Sets3(18, 10, 8, 8, 16, 5), status |-> Finished, winner |-> "team1"],
    [sets |-> Sets3(18, 10, 6, NullScore, NullScore, NullScore), status |-> Pending, winner |-> "null"],
    [sets |-> Sets3(18, 10, 18, 10, NullScore, NullScore), status |-> Pending, winner |-> "team1"],
    [sets |-> Sets3(18, 10, 18, 10, NullScore, NullScore), status |-> Finished, winner |-> "null"],
    [sets |-> Sets3(18, 10, 18, 10, NullScore, NullScore), status |-> Finished, winner |-> "other"] }

WinnerOf(pairing, winner) ==
  IF winner = "team1" THEN pairing[1]
  ELSE IF winner = "team2" THEN pairing[2]
  ELSE IF winner = "other" THEN pairing[3]
  ELSE NullTeam

MatchPool ==
  { Match(<<"match", 0, 0, 1, 1>>, "c1", p[1], p[2], r.sets, WinnerOf(p, r.winner), r.status, "")
      : p \in Pairings, r \in ResultPool }

MatchLists == UNION {[1..n -> MatchPool] : n \in 0..MaxMatches}

\* CalculateStandings dropping the filtered-out matches from its argument
CalculateStandings_FiltersInPlace ==
  /\ pc = "call"
  /\ csResult' = calculateStandings(csTeams, csMatches)
  /\ csMatches' = RelevantMatches(csTeams, csMatches)
  /\ pc' = "done"
  /\ UNCHANGED <<csTeams, grVars, appVars, shellVars, tsVars>>

\* one call on the team list and the match list of the state
CalculateStandings ==
  /\ pc = "call"
  /\ csResult' = calculateStandings(csTeams, csMatches)
  /\ pc' = "done"
  /\ UNCHANGED <<csTeams, csMatches, grVars, appVars, shellVars, tsVars>>

(***************************************************************************)
(* Specifications                                                          *)
(***************************************************************************)
\* `null` of activeCategoryId (string | null); no category has the empty id
NullId == ""

\* `null` of maximizedWidget (string | null); no widget has the empty name
NullWidget == ""

\* `null` of pendingChampionshipData (string | null); a text s is <<s>>, so
\* that the empty text differs from null
NullData == <<>>

\* the useState defaults of App: no profile open, no widget maximized, both
\* dialogs closed, no file waiting
ShellInit ==
  /\ viewingPlayerId = NullId
  /\ maximizedWidget = NullWidget
  /\ isNewChampionshipConfirmOpen = FALSE
  /\ isLoadConfirmOpen = FALSE
  /\ pendingChampionshipData = NullData

\* the useState defaults of TournamentSummary; no request sent
SummaryInit ==
  /\ summary = ""
  /\ isLoading = FALSE
  /\ aiCall = "none"
  /\ summaryResult = ""

\* the defaults of usePersistentState: nothing stored yet
AppEmpty ==
  /\ appTeams = <<>>
  /\ appCategories = <<>>
  /\ appMatches = <<>>
  /\ activeCategoryId = NullId
  /\ appPlayers = <<>>
  /\ isPanelCollapsed = FALSE
  /\ ShellInit
  /\ SummaryInit

InitGen ==
  /\ pc = "call"
  /\ grTeams \in TeamLists(MaxTeams)
  /\ grCategory \in CategoryPool
  /\ grTwoLegged \in BOOLEAN
  /\ grResult = <<>>
  /\ csTeams = <<>>
  /\ csMatches = <<>>
  /\ csResult = <<>>
  /\ AppEmpty

NextGen == GenerateRoundRobinMatches

SpecGen == InitGen /\ [][NextGen]_vars

InitStand ==
  /\ pc = "call"
  /\ grTeams = <<>>
  /\ grCategory = Category("c1", "Cat1", <<"t1", "t2", "t3">>)
  /\ grTwoLegged = FALSE
  /\ grResult = <<>>
  /\ csTeams \in StandingsTeamLists
  /\ csMatches \in MatchLists
  /\ csResult = <<>>
  /\ AppEmpty

NextStand == CalculateStandings

SpecStand == InitStand /\ [][NextStand]_vars

\* either function called once, the arguments of both being in the state
InitPure ==
  /\ pc = "call"
  /\ grTeams \in StandingsTeamLists
  /\ grCategory \in CategoryPool
  /\ grTwoLegged \in BOOLEAN
  /\ grResult = <<>>
  /\ csTeams \in {<<TeamA, TeamB, TeamC>>, <<TeamB, TeamA>>}
  /\ csMatches \in {<<>>} \cup {<<m>> : m \in MatchPool}
  /\ csResult = <<>>
  /\ AppEmpty

NextPure == GenerateRoundRobinMatches \/ CalculateStandings

SpecPure == InitPure /\ [][NextPure]_vars

(***************************************************************************)
(* App.tsx: derived state and the schedule handlers                        *)
(***************************************************************************)
\* `null` of activeCategory (Category | null)
NullCategory == Category("", "", <<>>)

\* categories.find(c => c.id === id) || null
FindCategory(categories, id) ==
  LET found == {k \in DOMAIN categories : categories[k].id = id}
  IN IF found = {} THEN NullCategory
     ELSE categories[CHOOSE k \in found : \A l \in found : k <= l]

activeCategory == FindCategory(appCategories, activeCategoryId)

activeCategoryTeams ==
  IF activeCategory = NullCategory THEN <<>>
  ELSE SelectSeq(appTeams, LAMBDA t : t.id \in Range(activeCategory.teamIds))

activeCategoryMatches ==
  IF activeCategory = NullCategory THEN <<>>
  ELSE SelectSeq(appMatches, LAMBDA m : m.categoryId = activeCategory.id)

\* the useMemo of the standings table
standings ==
  IF activeCategory = NullCategory \/ Len(activeCategoryTeams) = 0 THEN <<>>
  ELSE calculateStandings(activeCategoryTeams, activeCategoryMatches)

\* the set wins counted by handleUpdateMatch
RECURSIVE WinnerTally(_, _, _)
WinnerTally(sets, k, acc) ==
  IF k > Len(sets) THEN acc
  ELSE LET set == sets[k]
       IN IF set.team1 # NullScore /\ set.team2 # NullScore
          THEN WinnerTally(sets, k + 1,
                 [team1SetWins |-> acc.team1SetWins + (IF set.team1 > set.team2 THEN 1 ELSE 0),
                  team2SetWins |-> acc.team2SetWins + (IF set.team2 > set.team1 THEN 1 ELSE 0)])
          ELSE WinnerTally(sets, k + 1, acc)

\* Merged falling back to empty sets when newMatchData carries none
Merged_SetsDefaulted(match, newMatchData) ==
  [match EXCEPT !.sets = IF "sets" \in DOMAIN newMatchData THEN newMatchData.sets ELSE EmptySets,
                !.date = IF "date" \in DOMAIN newMatchData THEN newMatchData.date ELSE @]

\* { ...match, ...newMatchData }: newMatchData carries sets, date or both
Merged(match, newMatchData) ==
  [match EXCEPT !.sets = IF "sets" \in DOMAIN newMatchData THEN newMatchData.sets ELSE @,
                !.date = IF "date" \in DOMAIN newMatchData THEN newMatchData.date ELSE @]

\* UpdatedMatch leaving the winner in place when no team has two sets
UpdatedMatch_WinnerNotCleared(match, newMatchData) ==
  LET merged == Merged(match, newMatchData)
      tally == WinnerTally(merged.sets, 1, [team1SetWins |-> 0, team2SetWins |-> 0])
      winner == IF tally.team1SetWins >= 2 THEN merged.team1
                ELSE IF tally.team2SetWins >= 2 THEN merged.team2
                ELSE merged.winner
  IN [merged EXCEPT !.winner = winner,
                    !.status = IF winner # NullTeam THEN Finished ELSE Pending]

\* the map callback of handleUpdateMatch for the match carrying matchId
UpdatedMatch(match, newMatchData) ==
  LET merged == Merged(match, newMatchData)
      tally == WinnerTally(merged.sets, 1, [team1SetWins |-> 0, team2SetWins |-> 0])
      winner == IF tally.team1SetWins >= 2 THEN merged.team1
                ELSE IF tally.team2SetWins >= 2 THEN merged.team2
                ELSE NullTeam
  IN [merged EXCEPT !.winner = winner,
                    !.status = IF winner # NullTeam THEN Finished ELSE Pending]

\* handleUpdateMatch stopping at the first match that carries matchId
handleUpdateMatch_FirstOnly(prevMatches, matchId, newMatchData) ==
  [k \in DOMAIN prevMatches |->
     IF prevMatches[k].id = matchId
        /\ \A l \in 1..(k - 1) : prevMatches[l].id # matchId
     THEN UpdatedMatch(prevMatches[k], newMatchData)
     ELSE prevMatches[k]]

\* the updater handed to setMatches by handleUpdateMatch
handleUpdateMatch(prevMatches, matchId, newMatchData) ==
  [k \in DOMAIN prevMatches |->
     IF prevMatches[k].id # matchId THEN prevMatches[k]
     ELSE UpdatedMatch(prevMatches[k], newMatchData)]

\* the score sheets saved from a match card: three sets won by team1, a
\* 1-2 over three sets, and one set won followed by a drawn set
SavedSetsPool ==
  { Sets3(18, 10, 18, 3, 16, 5),
    Sets3(18, 12, 7, 18, 4, 16),
    Sets3(18, 10, 8, 8, NullScore, NullScore) }

\* the arguments of onUpdateMatch in handleSave
NewMatchDataPool == {[sets |-> s, date |-> ""] : s \in SavedSetsPool}

StoredIds == {appMatches[k].id : k \in DOMAIN appMatches}

HandleUpdateMatch ==
  /\ pc' = "handleUpdateMatch"
  /\ UNCHANGED <<grVars, csVars, shellVars, tsVars, appTeams, appCategories, activeCategoryId>>
  /\ \E matchId \in StoredIds :
       \E newMatchData \in NewMatchDataPool :
         appMatches' = handleUpdateMatch(appMatches, matchId, newMatchData)

\* HandleGenerateMatches keeping the old matches of the category
HandleGenerateMatches_KeepsOld ==
  /\ pc' = "handleGenerateMatches"
  /\ UNCHANGED <<grVars, csVars, shellVars, tsVars, appTeams, appCategories, activeCategoryId>>
  /\ \E twoLegged \in BOOLEAN :
       IF activeCategory = NullCategory
       THEN appMatches' = appMatches
       ELSE \E clock \in ClockReadings(MaxReads(activeCategoryTeams)) :
              \E order \in ShuffleOrders(Len(UnshuffledMatches(activeCategoryTeams,
                                             activeCategory, twoLegged, clock))) :
                appMatches' =
                  appMatches
                    \o generateRoundRobinMatches(activeCategoryTeams, activeCategory,
                                                 twoLegged, clock, order)

\* handleGenerateMatches(twoLegged): the clock readings are values of the
\* wall clock within a window of two milliseconds
HandleGenerateMatches ==
  /\ pc' = "handleGenerateMatches"
  /\ UNCHANGED <<grVars, csVars, shellVars, tsVars, appTeams, appCategories, activeCategoryId>>
  /\ \E twoLegged \in BOOLEAN :
       IF activeCategory = NullCategory
       THEN appMatches' = appMatches
       ELSE \E clock \in ClockReadings(MaxReads(activeCategoryTeams)) :
              \E order \in ShuffleOrders(Len(UnshuffledMatches(activeCategoryTeams,
                                             activeCategory, twoLegged, clock))) :
                appMatches' =
                  SelectSeq(appMatches, LAMBDA m : m.categoryId # activeCategory.id)
                    \o generateRoundRobinMatches(activeCategoryTeams, activeCategory,
                                                 twoLegged, clock, order)

HandleSelectCategory ==
  /\ pc' = "handleSelectCategory"
  /\ UNCHANGED <<grVars, csVars, shellVars, tsVars, appTeams, appCategories, appMatches>>
  /\ \E id \in {appCategories[k].id : k \in DOMAIN appCategories} \cup {NullId} :
       activeCategoryId' = id

\* a stored championship: three teams, two categories of two teams each, no
\* schedule yet and no category selected; pc names the handler that ran last
InitApp ==
  /\ pc = "idle"
  /\ grTeams = <<>>
  /\ grCategory = Category("c1", "Cat1", <<"t1", "t2", "t3">>)
  /\ grTwoLegged = FALSE
  /\ grResult = <<>>
  /\ csTeams = <<>>
  /\ csMatches = <<>>
  /\ csResult = <<>>
  /\ appTeams = <<TeamA, TeamB, TeamC>>
  /\ appCategories = <<Category("c1", "Cat1", <<"t1", "t2">>),
                       Category("c2", "Cat2", <<"t2", "t3">>)>>
  /\ appMatches = <<>>
  /\ activeCategoryId = NullId
  /\ appPlayers = <<>>
  /\ isPanelCollapsed = FALSE
  /\ ShellInit
  /\ SummaryInit

NextApp == HandleSelectCategory \/ HandleGenerateMatches \/ HandleUpdateMatch

SpecApp == InitApp /\ [][NextApp]_vars

(***************************************************************************)
(* App.tsx: teams, categories and the new championship                     *)
(***************************************************************************)
Player(id, firstName) == [id |-> id, firstName |-> firstName]

\* the values Date.now() takes while the handlers run: a window of two
\* milliseconds of the wall clock
NowPool == {0, 1}

\* `team-${Date.now()}`
TeamId(now) == "team-" \o ToString(now)

\* `category-${Date.now()}`
CategoryId(now) == "category-" \o ToString(now)

\* what the team form submits: a name that is not blank, with no player or
\* with every registered player ticked
TeamForms ==
  { [name |-> "A", playerIds |-> <<>>],
    [name |-> "B", playerIds |-> [k \in DOMAIN appPlayers |-> appPlayers[k].id]] }

\* the ids of S in the order of the team list, each once
RECURSIVE TickedIds(_, _, _, _)
TickedIds(teams, S, k, acc) ==
  IF k > Len(teams) THEN acc
  ELSE TickedIds(teams, S, k + 1,
                 IF teams[k].id \in S /\ teams[k].id \notin Range(acc)
                 THEN Append(acc, teams[k].id) ELSE acc)

\* what the category form submits: a name, and the teams ticked in the list
CategoryForms ==
  { [name |-> "Cat", teamIds |-> TickedIds(appTeams, S, 1, <<>>)]
      : S \in SUBSET {appTeams[k].id : k \in DOMAIN appTeams} }

HandleAddTeam ==
  /\ Len(appTeams) < MaxAppTeams
  /\ pc' = "handleAddTeam"
  /\ UNCHANGED <<grVars, csVars, shellVars, tsVars, appCategories, appMatches, activeCategoryId>>
  /\ \E now \in NowPool :
       \E form \in TeamForms :
         appTeams' = Append(appTeams, Team(TeamId(now), form.name, form.playerIds))

\* handleUpdateTeam rewriting the team copies held by the stored matches too
HandleUpdateTeam_RewritesMatches ==
  /\ pc' = "handleUpdateTeam"
  /\ UNCHANGED <<grVars, csVars, shellVars, tsVars, appCategories, activeCategoryId>>
  /\ \E id \in {appTeams[k].id : k \in DOMAIN appTeams} :
       \E form \in TeamForms :
         /\ appTeams' = [k \in DOMAIN appTeams |->
                           IF appTeams[k].id = id
                           THEN [appTeams[k] EXCEPT !.name = form.name,
                                                    !.playerIds = form.playerIds]
                           ELSE appTeams[k]]
         /\ appMatches' = [k \in DOMAIN appMatches |->
                             [appMatches[k] EXCEPT
                                !.team1 = IF @.id = id THEN Team(id, form.name, form.playerIds) ELSE @,
                                !.team2 = IF @.id = id THEN Team(id, form.name, form.playerIds) ELSE @]]

HandleUpdateTeam ==
  /\ pc' = "handleUpdateTeam"
  /\ UNCHANGED <<grVars, csVars, shellVars, tsVars, appCategories, appMatches, activeCategoryId>>
  /\ \E id \in {appTeams[k].id : k \in DOMAIN appTeams} :
       \E form \in TeamForms :
         appTeams' = [k \in DOMAIN appTeams |->
                        IF appTeams[k].id = id
                        THEN [appTeams[k] EXCEPT !.name = form.name,
                                                 !.playerIds = form.playerIds]
                        ELSE appTeams[k]]

\* handleDeleteTeam deleting only the matches the team plays as team1
HandleDeleteTeam_Team1Only ==
  /\ pc' = "handleDeleteTeam"
  /\ UNCHANGED <<grVars, csVars, shellVars, tsVars, activeCategoryId>>
  /\ \E id \in {appTeams[k].id : k \in DOMAIN appTeams} :
       /\ appCategories' = [k \in DOMAIN appCategories |->
                              [appCategories[k] EXCEPT
                                 !.teamIds = SelectSeq(@, LAMBDA tid : tid # id)]]
       /\ appMatches' = SelectSeq(appMatches, LAMBDA m : m.team1.id # id)
       /\ appTeams' = SelectSeq(appTeams, LAMBDA t : t.id # id)

HandleDeleteTeam ==
  /\ pc' = "handleDeleteTeam"
  /\ UNCHANGED <<grVars, csVars, shellVars, tsVars, activeCategoryId>>
  /\ \E id \in {appTeams[k].id : k \in DOMAIN appTeams} :
       /\ appCategories' = [k \in DOMAIN appCategories |->
                              [appCategories[k] EXCEPT
                                 !.teamIds = SelectSeq(@, LAMBDA tid : tid # id)]]
       /\ appMatches' = SelectSeq(appMatches, LAMBDA m : m.team1.id # id /\ m.team2.id # id)
       /\ appTeams' = SelectSeq(appTeams, LAMBDA t : t.id # id)

HandleAddCategory ==
  /\ Len(appCategories) < MaxAppCategories
  /\ pc' = "handleAddCategory"
  /\ UNCHANGED <<grVars, csVars, shellVars, tsVars, appTeams, appMatches, activeCategoryId>>
  /\ \E now \in NowPool :
       \E form \in CategoryForms :
         appCategories' = Append(appCategories, Category(CategoryId(now), form.name, form.teamIds))

HandleUpdateCategory ==
  /\ pc' = "handleUpdateCategory"
  /\ UNCHANGED <<grVars, csVars, shellVars, tsVars, appTeams, appMatches, activeCategoryId>>
  /\ \E id \in {appCategories[k].id : k \in DOMAIN appCategories} :
       \E form \in CategoryForms :
         appCategories' = [k \in DOMAIN appCategories |->
                             IF appCategories[k].id = id
                             THEN [appCategories[k] EXCEPT !.name = form.name,
                                                           !.teamIds = form.teamIds]
                             ELSE appCategories[k]]

\* handleDeleteCategory leaving the selection on the deleted category
HandleDeleteCategory_KeepsSelection ==
  /\ pc' = "handleDeleteCategory"
  /\ UNCHANGED <<grVars, csVars, shellVars, tsVars, appTeams, activeCategoryId>>
  /\ \E id \in {appCategories[k].id : k \in DOMAIN appCategories} :
       /\ appMatches' = SelectSeq(appMatches, LAMBDA m : m.categoryId # id)
       /\ appCategories' = SelectSeq(appCategories, LAMBDA c : c.id # id)

HandleDeleteCategory ==
  /\ pc' = "handleDeleteCategory"
  /\ UNCHANGED <<grVars, csVars, shellVars, tsVars, appTeams>>
  /\ \E id \in {appCategories[k].id : k \in DOMAIN appCategories} :
       /\ activeCategoryId' = IF activeCategoryId = id THEN NullId ELSE activeCategoryId
       /\ appMatches' = SelectSeq(appMatches, LAMBDA m : m.categoryId # id)
       /\ appCategories' = SelectSeq(appCategories, LAMBDA c : c.id # id)

ConfirmNewChampionship ==
  /\ pc' = "confirmNewChampionship"
  /\ appPlayers' = <<>>
  /\ appTeams' = <<>>
  /\ appCategories' = <<>>
  /\ appMatches' = <<>>
  /\ activeCategoryId' = NullId
  /\ viewingPlayerId' = NullId
  /\ maximizedWidget' = NullWidget
  /\ isNewChampionshipConfirmOpen' = FALSE
  /\ UNCHANGED <<grVars, csVars, tsVars, isPanelCollapsed, isLoadConfirmOpen,
                 pendingChampionshipData>>

\* the first start of the app with one player registered: no team, no
\* category, no match
InitCrud ==
  /\ pc = "idle"
  /\ grTeams = <<>>
  /\ grCategory = Category("c1", "Cat1", <<"t1", "t2", "t3">>)
  /\ grTwoLegged = FALSE
  /\ grResult = <<>>
  /\ csTeams = <<>>
  /\ csMatches = <<>>
  /\ csResult = <<>>
  /\ appTeams = <<>>
  /\ appCategories = <<>>
  /\ appMatches = <<>>
  /\ activeCategoryId = NullId
  /\ appPlayers = <<Player("p1", "Ana")>>
  /\ isPanelCollapsed = FALSE
  /\ ShellInit
  /\ SummaryInit

NextCrud ==
  \/ HandleAddTeam
  \/ HandleUpdateTeam
  \/ HandleDeleteTeam
  \/ HandleAddCategory
  \/ HandleUpdateCategory
  \/ HandleDeleteCategory
  \/ HandleSelectCategory
  \/ HandleGenerateMatches
  \/ HandleUpdateMatch
  \/ ConfirmNewChampionship

SpecCrud == InitCrud /\ [][NextCrud]_vars

\* deleting from the stored championship of two categories
NextDelete ==
  \/ HandleSelectCategory
  \/ HandleGenerateMatches
  \/ HandleDeleteTeam
  \/ HandleDeleteCategory

SpecDelete == InitApp /\ [][NextDelete]_vars

(***************************************************************************)
(* MatchCard: the date field                                               *)
(***************************************************************************)
\* the values of the date input: cleared, or a day
DatePool == {"", "2025-06-01"}

\* handleDateBlur of the card of a stored match: onUpdateMatch with the date
\* alone, when the date typed differs from the stored one
HandleDateBlur ==
  /\ pc' = "handleDateBlur"
  /\ UNCHANGED <<grVars, csVars, shellVars, tsVars, appTeams, appCategories, activeCategoryId>>
  /\ \E k \in DOMAIN appMatches :
       \E date \in DatePool :
         /\ date # appMatches[k].date
         /\ appMatches' = handleUpdateMatch(appMatches, appMatches[k].id, [date |-> date])

\* a stored championship with one category of two teams, selected
InitCard ==
  /\ pc = "idle"
  /\ grTeams = <<>>
  /\ grCategory = Category("c1", "Cat1", <<"t1", "t2", "t3">>)
  /\ grTwoLegged = FALSE
  /\ grResult = <<>>
  /\ csTeams = <<>>
  /\ csMatches = <<>>
  /\ csResult = <<>>
  /\ appTeams = <<TeamA, TeamB>>
  /\ appCategories = <<Category("c1", "Cat1", <<"t1", "t2">>)>>
  /\ appMatches = <<>>
  /\ activeCategoryId = "c1"
  /\ appPlayers = <<>>
  /\ isPanelCollapsed = FALSE
  /\ ShellInit
  /\ SummaryInit

NextCard == HandleGenerateMatches \/ HandleUpdateMatch \/ HandleDateBlur

SpecCard == InitCard /\ [][NextCard]_vars

\* editing the teams of the stored championship of one category
NextTeamEdit == HandleGenerateMatches \/ HandleUpdateMatch \/ HandleUpdateTeam

SpecTeamEdit == InitCard /\ [][NextTeamEdit]_vars

(***************************************************************************)
(* App.tsx: loading a championship file                                    *)
(***************************************************************************)
\* what JSON.parse gives: a SyntaxError, null, or an object whose fields
\* hold an array (isArray, with its items) or another value
JsonSyntaxError == [kind |-> "SyntaxError"]

JsonNull == [kind |-> "null"]

JsonObject(fields) == [kind |-> "object", fields |-> fields]

JsonArray(items) == [isArray |-> TRUE, value |-> items]

JsonScalar(v) == [isArray |-> FALSE, value |-> v]

\* the files a user may pick: an empty file, a page that is no JSON, the
\* JSON null, a backup that lacks the matches, a backup whose teams are an
\* object, a full backup, and a backup of an empty championship written
\* without activeCategoryId and isPanelCollapsed
EmptyFile == ""

HtmlFile == "<html></html>"

NullFile == "null"

NoMatchesFile == "{\"players\":[],\"teams\":[],\"categories\":[]}"

TeamsObjectFile == "{\"players\":[],\"teams\":{},\"categories\":[],\"matches\":[]}"

BackupFile == "{\"players\":[p1],\"teams\":[t2,t3],\"categories\":[c2],\"matches\":[],\"activeCategoryId\":\"c2\",\"isPanelCollapsed\":true}"

BareFile == "{\"players\":[],\"teams\":[],\"categories\":[],\"matches\":[]}"

LoadTexts == {EmptyFile, HtmlFile, NullFile, NoMatchesFile, TeamsObjectFile, BackupFile, BareFile}

JsonParse(text) ==
  CASE text = NullFile -> JsonNull
    [] text = NoMatchesFile ->
         JsonObject([players |-> JsonArray(<<>>), teams |-> JsonArray(<<>>),
                     categories |-> JsonArray(<<>>)])
    [] text = TeamsObjectFile ->
         JsonObject([players |-> JsonArray(<<>>), teams |-> JsonScalar(<<>>),
                     categories |-> JsonArray(<<>>), matches |-> JsonArray(<<>>)])
    [] text = BackupFile ->
         JsonObject([players |-> JsonArray(<<Player("p1", "Ana")>>),
                     teams |-> JsonArray(<<TeamB, TeamC>>),
                     categories |-> JsonArray(<<Category("c2", "Cat2", <<"t2", "t3">>)>>),
                     matches |-> JsonArray(<<>>),
                     activeCategoryId |-> JsonScalar("c2"),
                     isPanelCollapsed |-> JsonScalar(TRUE)])
    [] text = BareFile ->
         JsonObject([players |-> JsonArray(<<>>), teams |-> JsonArray(<<>>),
                     categories |-> JsonArray(<<>>), matches |-> JsonArray(<<>>)])
    [] OTHER -> JsonSyntaxError

\* Array.isArray(data[key])
IsArrayField(data, key) == key \in DOMAIN data.fields /\ data.fields[key].isArray

\* the test in front of `throw new Error(...)`, negated
HasChampionshipShape(data) ==
  /\ data.kind = "object"
  /\ IsArrayField(data, "players")
  /\ IsArrayField(data, "teams")
  /\ IsArrayField(data, "categories")
  /\ IsArrayField(data, "matches")

\* data[key] || fallback
FieldOr(data, key, fallback) ==
  IF key \in DOMAIN data.fields THEN data.fields[key].value ELSE fallback

\* reader.onload of handleFileSelected: the text of the file is kept and the
\* load dialog opens
HandleFileSelected ==
  /\ pc' = "handleFileSelected"
  /\ \E text \in LoadTexts :
       /\ pendingChampionshipData' = <<text>>
       /\ isLoadConfirmOpen' = TRUE
  /\ UNCHANGED <<grVars, csVars, tsVars, appVars, appPlayers, viewingPlayerId,
                 maximizedWidget, isPanelCollapsed, isNewChampionshipConfirmOpen>>

CancelLoadChampionship ==
  /\ pc' = "cancelLoadChampionship"
  /\ isLoadConfirmOpen' = FALSE
  /\ pendingChampionshipData' = NullData
  /\ UNCHANGED <<grVars, csVars, tsVars, appVars, appPlayers, viewingPlayerId,
                 maximizedWidget, isPanelCollapsed, isNewChampionshipConfirmOpen>>

\* `!pendingChampionshipData`: null or the empty text
NoPendingData == pendingChampionshipData = NullData \/ pendingChampionshipData = <<EmptyFile>>

ConfirmLoadChampionship ==
  /\ pc' = "confirmLoadChampionship"
  /\ UNCHANGED <<grVars, csVars, tsVars, isNewChampionshipConfirmOpen>>
  /\ IF NoPendingData
     THEN UNCHANGED <<appVars, shellVars>>
     ELSE /\ LET data == JsonParse(pendingChampionshipData[1])
             IN IF HasChampionshipShape(data)
                THEN /\ appPlayers' = data.fields.players.value
                     /\ appTeams' = data.fields.teams.value
                     /\ appCategories' = data.fields.categories.value
                     /\ appMatches' = data.fields.matches.value
                     /\ activeCategoryId' = FieldOr(data, "activeCategoryId", NullId)
                     /\ isPanelCollapsed' = FieldOr(data, "isPanelCollapsed", FALSE)
                     /\ viewingPlayerId' = NullId
                     /\ maximizedWidget' = NullWidget
                ELSE UNCHANGED <<appVars, appPlayers, isPanelCollapsed, viewingPlayerId,
                                 maximizedWidget>>
          /\ isLoadConfirmOpen' = FALSE
          /\ pendingChampionshipData' = NullData

NextLoad ==
  \/ HandleFileSelected
  \/ ConfirmLoadChampionship
  \/ CancelLoadChampionship
  \/ HandleGenerateMatches

SpecLoad == InitCard /\ [][NextLoad]_vars

(***************************************************************************)
(* TournamentSummary and geminiService.generateSummary                     *)
(***************************************************************************)
NoDataText == "No hay datos del torneo para generar un resumen."

ErrorText == "No se pudo generar el resumen del torneo. Por favor, inténtelo de nuevo."

\* response.text of a request that succeeded
AiTexts == {"El equipo lider sigue invicto."}

\* the promise of generateSummary: <<>> while it is unsettled, <<text>> once
\* it has resolved to text
Unsettled == <<>>

\* matches.some(m => m.status === 'Finished')
hasFinishedMatches ==
  \E k \in DOMAIN activeCategoryMatches : activeCategoryMatches[k].status = Finished

\* the click on the button, which is disabled while isLoading or without a
\* finished match: setIsLoading(true), then generateSummary runs up to its
\* first return or to the request it sends
HandleGenerateSummary ==
  /\ ~isLoading
  /\ hasFinishedMatches
  /\ pc' = "handleGenerateSummary"
  /\ isLoading' = TRUE
  /\ IF Len(standings) = 0
     THEN aiCall' = "none" /\ summaryResult' = <<NoDataText>>
     ELSE aiCall' = "pending" /\ summaryResult' = Unsettled
  /\ UNCHANGED <<grVars, csVars, appVars, shellVars, summary>>

\* the request succeeds: generateSummary returns response.text
GenerateContentFulfils ==
  /\ aiCall = "pending"
  /\ pc' = "generateSummary"
  /\ aiCall' = "fulfilled"
  /\ \E text \in AiTexts : summaryResult' = <<text>>
  /\ UNCHANGED <<grVars, csVars, appVars, shellVars, summary, isLoading>>

\* the catch block throwing the error on instead of returning the text
GenerateContentRejects_Rethrown ==
  /\ aiCall = "pending"
  /\ pc' = "generateSummary"
  /\ aiCall' = "rejected"
  /\ summaryResult' = Unsettled
  /\ UNCHANGED <<grVars, csVars, appVars, shellVars, summary, isLoading>>

\* the request fails: the catch block of generateSummary returns the fixed
\* error text
GenerateContentRejects ==
  /\ aiCall = "pending"
  /\ pc' = "generateSummary"
  /\ aiCall' = "rejected"
  /\ summaryResult' = <<ErrorText>>
  /\ UNCHANGED <<grVars, csVars, appVars, shellVars, summary, isLoading>>

\* handleGenerateSummary after its await: setSummary(result),
\* setIsLoading(false)
ResumeGenerateSummary ==
  /\ isLoading
  /\ summaryResult # Unsettled
  /\ pc' = "resumeGenerateSummary"
  /\ summary' = summaryResult[1]
  /\ isLoading' = FALSE
  /\ aiCall' = "none"
  /\ summaryResult' = Unsettled
  /\ UNCHANGED <<grVars, csVars, appVars, shellVars>>

NextSummary ==
  \/ HandleUpdateCategory
  \/ HandleGenerateMatches
  \/ HandleUpdateMatch
  \/ HandleGenerateSummary
  \/ GenerateContentFulfils
  \/ GenerateContentRejects
  \/ ResumeGenerateSummary

\* a request that was sent settles, and a continuation whose promise has
\* resolved is run
SpecSummary ==
  /\ InitCard
  /\ [][NextSummary]_vars
  /\ WF_vars(GenerateContentFulfils \/ GenerateContentRejects)
  /\ WF_vars(ResumeGenerateSummary)

(***************************************************************************)
(* Properties of generateRoundRobinMatches (checked under SpecGen)         *)
(***************************************************************************)
\* fixtures of the result that pair t1 (as team1) with t2 (as team2)
FixturesOf(result, t1, t2) ==
  {k \in DOMAIN result : result[k].team1 = t1 /\ result[k].team2 = t2}

\* C1: for N >= 2 teams the call returns N*(N-1)/2 fixtures when twoLegged
\* is false and N*(N-1) fixtures when it is true.
C1_FixtureCount ==
  (pc = "done" /\ Len(grTeams) >= 2) =>
     LET N == Len(grTeams)
     IN IF grTwoLegged THEN Len(grResult) = N * (N - 1)
        ELSE 2 * Len(grResult) = N * (N - 1)

C1_Witness ==
  /\ pc = "done"
  /\ Len(grTeams) = 3
  /\ grTwoLegged
  /\ Len(grResult) = 6

\* C2: for teams with pairwise distinct ids, every pair i < j has exactly
\* one fixture (teams[i], teams[j]) and, in two-legged mode only, exactly one
\* fixture (teams[j], teams[i]); every fixture is one of these, none pairs a
\* team with itself, and the shuffled result holds each fixture once.
C2_PairCoverage ==
  (pc = "done" /\ DistinctIds(grTeams)) =>
     /\ \A i, j \in DOMAIN grTeams :
           i < j =>
             /\ Cardinality(FixturesOf(grResult, grTeams[i], grTeams[j])) = 1
             /\ Cardinality(FixturesOf(grResult, grTeams[j], grTeams[i]))
                  = IF grTwoLegged THEN 1 ELSE 0
     /\ \A k \in DOMAIN grResult :
           /\ grResult[k].team1.id # grResult[k].team2.id
           /\ \E i, j \in DOMAIN grTeams :
                 /\ i # j
                 /\ grResult[k].team1 = grTeams[i]
                 /\ grResult[k].team2 = grTeams[j]
                 /\ (~grTwoLegged => i < j)

\* a two-legged schedule of three teams that does not start with the pair
\* generated first
C2_Witness ==
  /\ pc = "done"
  /\ DistinctIds(grTeams)
  /\ Len(grTeams) = 3
  /\ grTwoLegged
  /\ Len(grResult) = 6
  /\ grResult[1].team1 = grTeams[3]
  /\ grResult[1].team2 = grTeams[2]

(***************************************************************************)
(* Properties of calculateStandings (checked under SpecStand)              *)
(***************************************************************************)
MemberId(teams, id) == id \in {teams[k].id : k \in DOMAIN teams}

\* Finished, winner one of the two teams, both teams in the team set
Qualifying(teams, m) ==
  /\ m.status = Finished
  /\ m.winner # NullTeam
  /\ m.winner.id \in {m.team1.id, m.team2.id}
  /\ MemberId(teams, m.team1.id)
  /\ MemberId(teams, m.team2.id)

LoserIdOf(m) == IF m.winner.id = m.team1.id THEN m.team2.id ELSE m.team1.id

Other(side) == IF side = "team1" THEN "team2" ELSE "team1"

CompleteSets(m) ==
  {k \in DOMAIN m.sets : m.sets[k].team1 # NullScore /\ m.sets[k].team2 # NullScore}

\* number of complete sets in which side scored more than the other side
SetWins(m, side) ==
  Cardinality({k \in CompleteSets(m) : m.sets[k][side] > m.sets[k][Other(side)]})

RECURSIVE SumOver(_, _, _)
SumOver(m, side, ks) ==
  IF ks = {} THEN 0
  ELSE LET k == CHOOSE x \in ks : TRUE
       IN m.sets[k][side] + SumOver(m, side, ks \ {k})

\* sum of side's scores over the complete sets
ScoreSum(m, side) == SumOver(m, side, CompleteSets(m))

Without(matches, k) == SubSeq(matches, 1, k - 1) \o SubSeq(matches, k + 1, Len(matches))

RecordOf(result, id) == result[CHOOSE r \in DOMAIN result : result[r].team.id = id]

\* the result of the call on the same teams without match k (a one-element
\* set, to be bound by a quantifier)
ResultWithout(k) == {calculateStandings(csTeams, Without(csMatches, k))}

\* what a match adds to a field of the record of team id: the field in the
\* result, less the field in the result of the call without that match
Added(rest, id, field) == RecordOf(csResult, id)[field] - RecordOf(rest, id)[field]

\* C3: a Finished match between two teams of the team set whose complete
\* sets give one side 2 set wins and the other 0 adds 3 to the points of its
\* winner and 0 to the points of its loser.
C3_TwoNilGivesThree ==
  pc = "done" =>
    \A k \in DOMAIN csMatches :
      LET m == csMatches[k]
      IN (/\ Qualifying(csTeams, m)
          /\ {SetWins(m, "team1"), SetWins(m, "team2")} = {2, 0}) =>
           \A rest \in ResultWithout(k) :
             /\ Added(rest, m.winner.id, "points") = 3
             /\ Added(rest, LoserIdOf(m), "points") = 0

\* a 2-0 won by team2, in a list of two matches
C3_Witness ==
  /\ pc = "done"
  /\ Len(csMatches) = 2
  /\ LET m == csMatches[2]
     IN /\ Qualifying(csTeams, m)
        /\ SetWins(m, "team1") = 0
        /\ SetWins(m, "team2") = 2
        /\ m.winner = m.team2
        /\ RecordOf(csResult, m.team2.id).points >= 3

\* C4: a Finished match between two teams of the team set whose complete
\* sets give one side 2 set wins and the other 1 adds 2 to the points of its
\* winner and 1 to the points of its loser.
C4_TwoOneGivesTwoAndOne ==
  pc = "done" =>
    \A k \in DOMAIN csMatches :
      LET m == csMatches[k]
      IN (/\ Qualifying(csTeams, m)
          /\ {SetWins(m, "team1"), SetWins(m, "team2")} = {2, 1}) =>
           \A rest \in ResultWithout(k) :
             /\ Added(rest, m.winner.id, "points") = 2
             /\ Added(rest, LoserIdOf(m), "points") = 1

\* the example 18-10, 10-18, 11-5 as the only match: winner 2, loser 1
C4_Witness ==
  /\ pc = "done"
  /\ Len(csMatches) = 1
  /\ LET m == csMatches[1]
     IN /\ Qualifying(csTeams, m)
        /\ m.sets = Sets3(18, 10, 10, 18, 11, 5)
        /\ m.winner = m.team1
        /\ RecordOf(csResult, m.team1.id).points = 2
        /\ RecordOf(csResult, m.team2.id).points = 1

\* C5: a match that is Pending, or whose winner is null, changes nothing:
\* the result equals the result of the call without that match.
C5_PendingContributesNothing ==
  pc = "done" =>
    \A k \in DOMAIN csMatches :
      (csMatches[k].status = Pending \/ csMatches[k].winner = NullTeam) =>
         \A rest \in ResultWithout(k) : csResult = rest

\* a Pending match that records a winner and two complete sets, between two
\* teams of the team set, next to a match that did count
C5_Witness ==
  /\ pc = "done"
  /\ Len(csMatches) = 2
  /\ csMatches[1].status = Pending
  /\ csMatches[1].winner = csMatches[1].team1
  /\ SetWins(csMatches[1], "team1") = 2
  /\ MemberId(csTeams, csMatches[1].team1.id)
  /\ MemberId(csTeams, csMatches[1].team2.id)
  /\ Qualifying(csTeams, csMatches[2])

\* C6: a match with team1 or team2 outside the team list changes nothing,
\* also not the record of its participant that is in the list.
C6_OutsiderContributesNothing ==
  pc = "done" =>
    \A k \in DOMAIN csMatches :
      (~MemberId(csTeams, csMatches[k].team1.id) \/ ~MemberId(csTeams, csMatches[k].team2.id)) =>
         \A rest \in ResultWithout(k) : csResult = rest

\* a finished match won by a listed team1 against a team2 not in the list
C6_Witness ==
  /\ pc = "done"
  /\ \E k \in DOMAIN csMatches :
       /\ csMatches[k].status = Finished
       /\ csMatches[k].winner = csMatches[k].team1
       /\ MemberId(csTeams, csMatches[k].team1.id)
       /\ ~MemberId(csTeams, csMatches[k].team2.id)
       /\ RecordOf(csResult, csMatches[k].team1.id).played = 0

\* the matches of the list that are qualifying and have team id as team1 or
\* team2
QualifyingMatchesOf(teams, matches, id) ==
  {k \in DOMAIN matches :
     Qualifying(teams, matches[k]) /\ id \in {matches[k].team1.id, matches[k].team2.id}}

AllZero(r) ==
  /\ r.played = 0
  /\ r.wins = 0
  /\ r.losses = 0
  /\ r.points = 0
  /\ r.pointsFor = 0
  /\ r.pointsAgainst = 0
  /\ r.pointsDifference = 0

\* C7: for a team list with pairwise distinct ids the result holds exactly
\* one record per team of the list and no other record, and the record of a
\* team with no qualifying match has all seven numbers equal to 0.
C7_OneRecordPerTeam ==
  (pc = "done" /\ DistinctIds(csTeams)) =>
     /\ \A t \in DOMAIN csTeams :
           Cardinality({r \in DOMAIN csResult : csResult[r].team = csTeams[t]}) = 1
     /\ \A r \in DOMAIN csResult : csResult[r].team \in Range(csTeams)
     /\ \A r \in DOMAIN csResult :
           QualifyingMatchesOf(csTeams, csMatches, csResult[r].team.id) = {} =>
             AllZero(csResult[r])

\* C8: a qualifying match adds 1 to played and wins of its winner, 1 to
\* played and losses of the other team, and nothing to played, wins or
\* losses of any other record; every record has played = wins + losses.
C8_PlayedWinsLosses ==
  pc = "done" =>
    /\ \A k \in DOMAIN csMatches :
         LET m == csMatches[k]
         IN Qualifying(csTeams, m) =>
              \A rest \in ResultWithout(k) :
                \A r \in DOMAIN csResult :
                  LET id == csResult[r].team.id
                  IN /\ Added(rest, id, "played")
                          = IF id \in {m.team1.id, m.team2.id} THEN 1 ELSE 0
                     /\ Added(rest, id, "wins") = IF id = m.winner.id THEN 1 ELSE 0
                     /\ Added(rest, id, "losses") = IF id = LoserIdOf(m) THEN 1 ELSE 0
    /\ \A r \in DOMAIN csResult :
         csResult[r].played = csResult[r].wins + csResult[r].losses

\* two qualifying matches and three teams: one team played twice, one record
\* has a win and a loss
C8_Witness ==
  /\ pc = "done"
  /\ Len(csTeams) = 3
  /\ Len(csMatches) = 2
  /\ Qualifying(csTeams, csMatches[1])
  /\ Qualifying(csTeams, csMatches[2])
  /\ csMatches[1].team1 # csMatches[2].team1
  /\ \E r \in DOMAIN csResult :
       /\ csResult[r].played = 2
       /\ csResult[r].wins = 1
       /\ csResult[r].losses = 1

\* C9: a qualifying match adds to pointsFor of each of its two teams the sum
\* of that team's scores over the sets with both scores present, and to its
\* pointsAgainst the sum of the opponent's scores over the same sets.
C9_PointsForAgainst ==
  pc = "done" =>
    \A k \in DOMAIN csMatches :
      LET m == csMatches[k]
      IN Qualifying(csTeams, m) =>
           \A rest \in ResultWithout(k) :
             /\ Added(rest, m.team1.id, "pointsFor") = ScoreSum(m, "team1")
             /\ Added(rest, m.team1.id, "pointsAgainst") = ScoreSum(m, "team2")
             /\ Added(rest, m.team2.id, "pointsFor") = ScoreSum(m, "team2")
             /\ Added(rest, m.team2.id, "pointsAgainst") = ScoreSum(m, "team1")

\* a match won by team2 that lost a set, and a match with a set that has one
\* score only; the winner of the second has scores from both
C9_Witness ==
  /\ pc = "done"
  /\ Len(csMatches) = 2
  /\ Qualifying(csTeams, csMatches[1])
  /\ csMatches[1].winner = csMatches[1].team2
  /\ SetWins(csMatches[1], "team1") = 1
  /\ Qualifying(csTeams, csMatches[2])
  /\ Cardinality(CompleteSets(csMatches[2])) = 2
  /\ csMatches[2].sets[2].team1 # NullScore
  /\ csMatches[2].sets[2].team2 = NullScore
  /\ RecordOf(csResult, csMatches[2].winner.id).pointsFor
       > ScoreSum(csMatches[2], "team2")

\* C10: every record of the result has
\* pointsDifference = pointsFor - pointsAgainst.
C10_PointsDifference ==
  pc = "done" =>
    \A r \in DOMAIN csResult :
      csResult[r].pointsDifference = csResult[r].pointsFor - csResult[r].pointsAgainst

\* a record with a negative difference after two counted matches
C10_Witness ==
  /\ pc = "done"
  /\ Len(csMatches) = 2
  /\ \E r \in DOMAIN csResult :
       /\ csResult[r].played = 2
       /\ csResult[r].pointsDifference < 0
       /\ csResult[r].pointsFor > 0

\* C11: the result is sorted: a record placed before another has at least
\* its points; with equal points at least its wins; with those equal too at
\* least its pointsDifference; with those equal too at least its pointsFor.
C11_Sorted ==
  pc = "done" =>
    \A x, y \in DOMAIN csResult :
      x < y =>
        LET a == csResult[x]
            b == csResult[y]
        IN /\ a.points >= b.points
           /\ (a.points = b.points => a.wins >= b.wins)
           /\ (a.points = b.points /\ a.wins = b.wins
                 => a.pointsDifference >= b.pointsDifference)
           /\ (a.points = b.points /\ a.wins = b.wins
                 /\ a.pointsDifference = b.pointsDifference
                 => a.pointsFor >= b.pointsFor)

\* the team listed first ends behind a team with the same points and more
\* wins
C11_Witness ==
  /\ pc = "done"
  /\ Len(csResult) = 3
  /\ \E x, y \in DOMAIN csResult :
       /\ x < y
       /\ csResult[x].points = csResult[y].points
       /\ csResult[x].points > 0
       /\ csResult[x].wins > csResult[y].wins
       /\ csResult[y].team = csTeams[1]

\* C12: a Finished match whose winner is neither its team1 nor its team2 is
\* skipped: the result equals the result of the call without that match, also
\* when the winner is a member of the team set.
C12_ForeignWinnerSkipped ==
  pc = "done" =>
    \A k \in DOMAIN csMatches :
      LET m == csMatches[k]
      IN (/\ m.status = Finished
          /\ m.winner # NullTeam
          /\ m.winner.id \notin {m.team1.id, m.team2.id}) =>
           \A rest \in ResultWithout(k) : csResult = rest

\* C14: generateRoundRobinMatches called with no team or one team returns
\* the empty sequence, for either value of twoLegged.
C14_FewerThanTwoTeams ==
  pc = "done" /\ Len(grTeams) < 2 => grResult = <<>>

C14_Witness ==
  /\ pc = "done"
  /\ Len(grTeams) = 1
  /\ grTwoLegged
  /\ grResult = <<>>

\* C15: every fixture returned by generateRoundRobinMatches, of either leg,
\* has exactly three sets with both scores null, no winner, status Pending,
\* the empty date and the id of the category passed in.
C15_FreshFixtures ==
  pc = "done" =>
    \A k \in DOMAIN grResult :
      LET m == grResult[k]
      IN /\ Len(m.sets) = 3
         /\ \A s \in DOMAIN m.sets :
              m.sets[s].team1 = NullScore /\ m.sets[s].team2 = NullScore
         /\ m.winner = NullTeam
         /\ m.status = Pending
         /\ m.date = ""
         /\ m.categoryId = grCategory.id

\* a two-legged schedule of three teams
C15_Witness ==
  /\ pc = "done"
  /\ grTwoLegged
  /\ Len(grTeams) = 3
  /\ Len(grResult) = 6
  /\ grCategory.id = "c2"
  /\ \E k \in DOMAIN grResult :
       grResult[k].team1 = grTeams[3] /\ grResult[k].team2 = grTeams[1]

\* C18: the fixtures returned by one call of generateRoundRobinMatches have
\* pairwise distinct ids, whether or not the clock moves during the call.
C18_DistinctIdsInOneCall ==
  pc = "done" =>
    \A x, y \in DOMAIN grResult : x # y => grResult[x].id # grResult[y].id

\* a two-legged schedule in which two fixtures carry the same clock reading
\* and two carry different ones
C18_Witness ==
  /\ pc = "done"
  /\ grTwoLegged
  /\ Len(grResult) = 6
  /\ \E x, y, z \in DOMAIN grResult :
       /\ x # y
       /\ grResult[x].id[2] = grResult[y].id[2]
       /\ grResult[x].id[2] # grResult[z].id[2]

\* the result of the call with set s of match k replaced by an empty set
\* (a one-element set, to be bound by a quantifier)
ResultWithSetBlank(k, s) ==
  {calculateStandings(csTeams,
     [csMatches EXCEPT ![k].sets[s] = MatchSet(NullScore, NullScore)])}

\* C16: a set with exactly one score present is ignored: the result equals
\* the result of the call with that set empty.  A set with both scores
\* present and equal is a set win for neither team: played, wins, losses and
\* points of every team are those of the call with that set empty.
C16_PartialAndTiedSets ==
  pc = "done" =>
    \A k \in DOMAIN csMatches :
      \A s \in DOMAIN csMatches[k].sets :
        LET set == csMatches[k].sets[s]
            half == (set.team1 = NullScore) # (set.team2 = NullScore)
            tie == set.team1 # NullScore /\ set.team1 = set.team2
        IN /\ half => \A blank \in ResultWithSetBlank(k, s) : csResult = blank
           /\ tie => \A blank \in ResultWithSetBlank(k, s) :
                       \A r \in DOMAIN csResult :
                         LET a == csResult[r]
                             b == RecordOf(blank, a.team.id)
                         IN /\ a.played = b.played
                            /\ a.wins = b.wins
                            /\ a.losses = b.losses
                            /\ a.points = b.points

\* a counted match with a drawn set followed by a counted match with a
\* half-entered set
C16_Witness ==
  /\ pc = "done"
  /\ Len(csMatches) = 2
  /\ Qualifying(csTeams, csMatches[1])
  /\ Qualifying(csTeams, csMatches[2])
  /\ csMatches[1].sets[2] = MatchSet(8, 8)
  /\ csMatches[2].sets[2] = MatchSet(17, NullScore)
  /\ RecordOf(csResult, csMatches[1].winner.id).points >= 3

C13_StatusWinnerSets ==
  \A k \in DOMAIN appMatches :
    LET m == appMatches[k]
        w1 == SetWins(m, "team1")
        w2 == SetWins(m, "team2")
    IN /\ m.status \in {Pending, Finished}
       /\ (m.status = Finished <=> m.winner # NullTeam)
       /\ (m.winner # NullTeam <=> (w1 >= 2 \/ w2 >= 2))
       /\ (w1 >= 2 => m.winner = m.team1)
       /\ (w2 >= 2 => m.winner = m.team2)

\* a schedule holding a match won by team2, a match with three sets won by
\* team1 and a match with one set won and no winner
C13_Witness ==
  \E x, y, z \in DOMAIN appMatches :
    /\ pc = "handleUpdateMatch"
    /\ appMatches[x].status = Finished
    /\ appMatches[x].winner = appMatches[x].team2
    /\ SetWins(appMatches[y], "team1") = 3
    /\ appMatches[y].winner = appMatches[y].team1
    /\ appMatches[z].status = Pending
    /\ SetWins(appMatches[z], "team1") = 1

\* C19: handleUpdateMatch changes every stored match that carries the id it
\* is given, in whatever category, and no other match; two categories
\* generated on the same clock reading share ids (the witness), so one
\* update then lands on both.
C19_UpdateHitsEveryMatchWithId ==
  [][pc' = "handleUpdateMatch" =>
       \E matchId \in StoredIds :
         \E newMatchData \in NewMatchDataPool :
           /\ Len(appMatches') = Len(appMatches)
           /\ \A k \in DOMAIN appMatches :
                IF appMatches[k].id = matchId
                THEN /\ appMatches'[k].sets = newMatchData.sets
                     /\ appMatches'[k].date = newMatchData.date
                ELSE appMatches'[k] = appMatches[k]]_vars

\* two stored matches of different categories carry the same id and the same
\* saved score sheet
C19_Witness ==
  \E x, y \in DOMAIN appMatches :
    /\ pc = "handleUpdateMatch"
    /\ x # y
    /\ appMatches[x].id = appMatches[y].id
    /\ appMatches[x].categoryId # appMatches[y].categoryId
    /\ appMatches[x].team1 # appMatches[y].team1
    /\ appMatches[x].sets = Sets3(18, 12, 7, 18, 4, 16)
    /\ appMatches[y].sets = Sets3(18, 12, 7, 18, 4, 16)
    /\ appMatches[x].winner = appMatches[x].team2
    /\ appMatches[y].winner = appMatches[y].team2

\* C20: handleGenerateMatches with an active category keeps the matches of
\* the other categories as they are and in their order, in front, and puts
\* behind them the new fixtures of the active category, which are then all
\* the matches of that category; with no active category it changes
\* nothing.  Teams, categories and the selection stay as they are.
C20_GenerateReplacesCategory ==
  [][pc' = "handleGenerateMatches" =>
       /\ UNCHANGED <<appTeams, appCategories, activeCategoryId>>
       /\ IF activeCategory = NullCategory
          THEN appMatches' = appMatches
          ELSE LET others == SelectSeq(appMatches,
                                       LAMBDA m : m.categoryId # activeCategory.id)
                   N == Len(activeCategoryTeams)
                   added == Len(appMatches') - Len(others)
               IN /\ added >= 0
                  /\ SubSeq(appMatches', 1, Len(others)) = others
                  /\ IF N < 2 THEN added = 0
                     ELSE 2 * added = N * (N - 1) \/ added = N * (N - 1)
                  /\ \A k \in (Len(others) + 1)..Len(appMatches') :
                       LET m == appMatches'[k]
                       IN /\ m.categoryId = activeCategory.id
                          /\ m.sets = EmptySets
                          /\ m.winner = NullTeam
                          /\ m.status = Pending
                          /\ m.date = ""
                          /\ m.team1 \in Range(activeCategoryTeams)
                          /\ m.team2 \in Range(activeCategoryTeams)]_vars

\* the fresh two-legged schedule of the active category stands behind the
\* matches of the other category, one of which has a recorded result
C20_Witness ==
  /\ pc = "handleGenerateMatches"
  /\ activeCategoryId = "c1"
  /\ Len(appMatches) = 4
  /\ appMatches[1].categoryId = "c2"
  /\ appMatches[1].status = Finished
  /\ appMatches[2].categoryId = "c2"
  /\ appMatches[3].categoryId = "c1"
  /\ appMatches[3].sets = EmptySets
  /\ appMatches[4].categoryId = "c1"
  /\ appMatches[4].sets = EmptySets

(***************************************************************************)
(* Balance of the standings table (checked under SpecStand)                *)
(***************************************************************************)
\* the matches the fold counts: between two teams of the list, Finished,
\* with a winner that has a record
CountedMatches(teams, matches) ==
  {k \in DOMAIN matches :
     /\ MemberId(teams, matches[k].team1.id)
     /\ MemberId(teams, matches[k].team2.id)
     /\ matches[k].status = Finished
     /\ matches[k].winner # NullTeam
     /\ MemberId(teams, matches[k].winner.id)}

RECURSIVE FieldSum(_, _, _)
FieldSum(result, field, k) ==
  IF k > Len(result) THEN 0 ELSE result[k][field] + FieldSum(result, field, k + 1)

\* C26: the records of a call balance: the wins sum to the losses, the
\* played sum to twice the number of counted matches, the pointsFor sum to
\* the pointsAgainst, and the pointsDifference sum to 0.
C26_Balance ==
  pc = "done" =>
    /\ FieldSum(csResult, "wins", 1) = FieldSum(csResult, "losses", 1)
    /\ FieldSum(csResult, "played", 1) = 2 * Cardinality(CountedMatches(csTeams, csMatches))
    /\ FieldSum(csResult, "pointsFor", 1) = FieldSum(csResult, "pointsAgainst", 1)
    /\ FieldSum(csResult, "pointsDifference", 1) = 0

\* two counted matches next to a team that played none: a table with
\* non-zero differences that cancel
C26_Witness ==
  /\ pc = "done"
  /\ Len(csTeams) = 3
  /\ Cardinality(CountedMatches(csTeams, csMatches)) = 2
  /\ FieldSum(csResult, "played", 1) = 4
  /\ FieldSum(csResult, "wins", 1) = 2
  /\ \E r \in DOMAIN csResult : csResult[r].pointsDifference > 0
  /\ \E r \in DOMAIN csResult : csResult[r].played = 0

(***************************************************************************)
(* Points of a match marked Finished (checked under SpecApp)               *)
(***************************************************************************)
\* C25: every stored match that handleUpdateMatch marked Finished brings
\* exactly 3 points in total into the table of its two teams (3 and 0, or
\* 2 and 1), whatever score sheet was saved, three sets won by one team
\* included.
C25_FinishedGivesThreePoints ==
  \A k \in DOMAIN appMatches :
    LET m == appMatches[k]
    IN m.status = Finished =>
         \A table \in {calculateStandings(<<m.team1, m.team2>>, <<m>>)} :
           /\ FieldSum(table, "points", 1) = 3
           /\ RecordOf(table, m.winner.id).points \in {2, 3}
           /\ RecordOf(table, LoserIdOf(m)).points \in {0, 1}

(***************************************************************************)
(* Frame of handleUpdateMatch (checked under SpecCard)                     *)
(***************************************************************************)
\* C27: an update, from handleSave or from handleDateBlur, changes only
\* stored matches that carry the id it was given: the other matches, the
\* number and the order of the matches stay, and an updated match keeps its
\* id, categoryId, team1 and team2; an update that carries only a date
\* leaves the sets of every match as they were.
C27_UpdateFrame ==
  [][pc' \in {"handleUpdateMatch", "handleDateBlur"} =>
       /\ Len(appMatches') = Len(appMatches)
       /\ \E matchId \in StoredIds :
            \A k \in DOMAIN appMatches :
              IF appMatches[k].id # matchId
              THEN appMatches'[k] = appMatches[k]
              ELSE /\ appMatches'[k].id = appMatches[k].id
                   /\ appMatches'[k].categoryId = appMatches[k].categoryId
                   /\ appMatches'[k].team1 = appMatches[k].team1
                   /\ appMatches'[k].team2 = appMatches[k].team2
       /\ (pc' = "handleDateBlur" =>
             \A k \in DOMAIN appMatches : appMatches'[k].sets = appMatches[k].sets)]_vars

\* a date was just set on a finished match whose score sheet is still
\* there, next to a match with another id, no date and no result
C27_Witness ==
  \E x, y \in DOMAIN appMatches :
    /\ pc = "handleDateBlur"
    /\ appMatches[x].date = "2025-06-01"
    /\ appMatches[x].sets = Sets3(18, 12, 7, 18, 4, 16)
    /\ appMatches[x].status = Finished
    /\ appMatches[y].id # appMatches[x].id
    /\ appMatches[y].date = ""
    /\ appMatches[y].sets = EmptySets

(***************************************************************************)
(* Deleting a team or a category (checked under SpecDelete)                *)
(***************************************************************************)
\* C21: after handleDeleteTeam(id) no team carries id, no category lists id
\* and no stored match has it as team1 or team2; the other teams, the other
\* entries of every teamIds and the matches without the team are as before,
\* in their order.
C21_DeleteTeam ==
  [][pc' = "handleDeleteTeam" =>
       \E id \in {appTeams[k].id : k \in DOMAIN appTeams} :
         /\ \A k \in DOMAIN appTeams' : appTeams'[k].id # id
         /\ \A k \in DOMAIN appCategories' : id \notin Range(appCategories'[k].teamIds)
         /\ \A k \in DOMAIN appMatches' :
              appMatches'[k].team1.id # id /\ appMatches'[k].team2.id # id
         /\ appTeams' = SelectSeq(appTeams, LAMBDA t : t.id # id)
         /\ Len(appCategories') = Len(appCategories)
         /\ \A k \in DOMAIN appCategories :
              /\ appCategories'[k].id = appCategories[k].id
              /\ appCategories'[k].name = appCategories[k].name
              /\ appCategories'[k].teamIds
                   = SelectSeq(appCategories[k].teamIds, LAMBDA tid : tid # id)
         /\ appMatches' = SelectSeq(appMatches,
                                    LAMBDA m : m.team1.id # id /\ m.team2.id # id)]_vars

\* team t1 was just deleted: the first category is left with t2 alone and
\* has no match any more, the two-legged schedule of the second stands
C21_Witness ==
  /\ pc = "handleDeleteTeam"
  /\ appTeams = <<TeamB, TeamC>>
  /\ Len(appCategories) = 2
  /\ appCategories[1].teamIds = <<"t2">>
  /\ appCategories[2].teamIds = <<"t2", "t3">>
  /\ Len(appMatches) = 2
  /\ \A k \in DOMAIN appMatches : appMatches[k].categoryId = "c2"

\* C22: after handleDeleteCategory(id) no category carries id, no stored
\* match has categoryId = id, and activeCategoryId is null if it was id and
\* unchanged otherwise; the other categories and the matches of the other
\* categories are as before, in their order.
C22_DeleteCategory ==
  [][pc' = "handleDeleteCategory" =>
       \E id \in {appCategories[k].id : k \in DOMAIN appCategories} :
         /\ \A k \in DOMAIN appCategories' : appCategories'[k].id # id
         /\ \A k \in DOMAIN appMatches' : appMatches'[k].categoryId # id
         /\ activeCategoryId' # id
         /\ activeCategoryId' = IF activeCategoryId = id THEN NullId ELSE activeCategoryId
         /\ appCategories' = SelectSeq(appCategories, LAMBDA c : c.id # id)
         /\ appMatches' = SelectSeq(appMatches, LAMBDA m : m.categoryId # id)]_vars

\* the first category was just deleted with its matches: nothing is
\* selected, and the schedule of the second category stands
C22_Witness ==
  /\ pc = "handleDeleteCategory"
  /\ activeCategoryId = NullId
  /\ Len(appCategories) = 1
  /\ appCategories[1].id = "c2"
  /\ Len(appTeams) = 3
  /\ Len(appMatches) = 1
  /\ appMatches[1].categoryId = "c2"

(***************************************************************************)
(* Editing a team (checked under SpecTeamEdit)                             *)
(***************************************************************************)
\* C29: handleUpdateTeam(id, name, playerIds) changes only the entries of
\* the team list that carry id, and of those only name and playerIds: the
\* categories, the selection and the stored matches stay, so a match keeps
\* in team1 and team2 the team objects of the time it was generated, while
\* every record of the standings table computed afterwards carries the team
\* object of the current team list.
C29_UpdateTeamFrame ==
  /\ [][pc' = "handleUpdateTeam" =>
          /\ appMatches' = appMatches
          /\ appCategories' = appCategories
          /\ activeCategoryId' = activeCategoryId
          /\ Len(appTeams') = Len(appTeams)
          /\ \E id \in {appTeams[k].id : k \in DOMAIN appTeams} :
               \A k \in DOMAIN appTeams :
                 /\ appTeams'[k].id = appTeams[k].id
                 /\ appTeams[k].id # id => appTeams'[k] = appTeams[k]]_vars
  /\ [](\A table \in {standings} :
          /\ Len(table) = Len(activeCategoryTeams)
          /\ \A r \in DOMAIN table : table[r].team \in Range(appTeams))

\* a team was renamed after its match was played: the match still holds the
\* old team object, and the record that counts the match the current one
C29_Witness ==
  \E k \in DOMAIN appMatches :
    \E t \in DOMAIN appTeams :
      /\ pc = "handleUpdateTeam"
      /\ appMatches[k].status = Finished
      /\ appMatches[k].team1 = TeamA
      /\ appTeams[t].id = "t1"
      /\ appTeams[t].name = "B"
      /\ appTeams[t].playerIds = <<>>
      /\ \E r \in DOMAIN standings :
           /\ standings[r].team = appTeams[t]
           /\ standings[r].played >= 1

(***************************************************************************)
(* No dangling reference in the schedule (checked under SpecCrud)          *)
(***************************************************************************)
\* C28: whatever teams and categories were added, edited and deleted,
\* whatever schedules were generated and results saved, and after a new
\* championship, every stored match names an existing category in
\* categoryId and existing teams in team1.id and team2.id.
C28_NoDanglingReference ==
  \A k \in DOMAIN appMatches :
    /\ \E c \in DOMAIN appCategories : appCategories[c].id = appMatches[k].categoryId
    /\ \E t \in DOMAIN appTeams : appTeams[t].id = appMatches[k].team1.id
    /\ \E t \in DOMAIN appTeams : appTeams[t].id = appMatches[k].team2.id

\* a finished match stands while the category that holds it has since lost
\* one of its two teams from teamIds and the other team has been renamed
C28_Witness ==
  /\ Len(appMatches) = 1
  /\ appMatches[1].status = Finished
  /\ appMatches[1].team1.id # appMatches[1].team2.id
  /\ Len(appTeams) = 2
  /\ Len(appCategories) = 1
  /\ Len(appCategories[1].teamIds) = 1
  /\ \E t \in DOMAIN appTeams :
       /\ appTeams[t].id = appMatches[1].team1.id
       /\ appTeams[t].name # appMatches[1].team1.name

(***************************************************************************)
(* Confirming the load dialog (checked under SpecLoad)                     *)
(***************************************************************************)
\* the pending text is one that confirmLoadChampionship cannot load: no
\* JSON, or a value without an array under one of the four lists
Unloadable ==
  \/ pendingChampionshipData = NullData
  \/ ~HasChampionshipShape(JsonParse(pendingChampionshipData[1]))

\* C23: confirmLoadChampionship on pending data that is not valid JSON or
\* lacks an array under players, teams, categories or matches leaves
\* players, teams, categories, matches and activeCategoryId as they are; in
\* every outcome the load dialog is closed and the pending data is cleared
\* afterwards.
C23_LoadAllOrNothing ==
  [][pc' = "confirmLoadChampionship" =>
       /\ Unloadable =>
            /\ appPlayers' = appPlayers
            /\ appTeams' = appTeams
            /\ appCategories' = appCategories
            /\ appMatches' = appMatches
            /\ activeCategoryId' = activeCategoryId
       /\ isLoadConfirmOpen' = FALSE
       /\ pendingChampionshipData' = NullData]_vars

(***************************************************************************)
(* The loading flag of TournamentSummary (checked under SpecSummary)       *)
(***************************************************************************)
\* C24: once handleGenerateSummary has set isLoading, isLoading returns to
\* false, whether the request succeeds or fails: a failed request makes
\* generateSummary resolve to the fixed error text, and that text is the
\* summary shown when the handler goes on.
C24_LoadingEnds ==
  /\ isLoading ~> ~isLoading
  /\ [](aiCall = "rejected" => summaryResult = <<ErrorText>>)
  /\ [][(aiCall = "rejected" /\ aiCall' # "rejected") =>
          (summary' = ErrorText /\ ~isLoading')]_vars

\* the summary shown is the error text of a failed request, and the flag is
\* down again
C24_Witness ==
  /\ pc = "resumeGenerateSummary"
  /\ summary = ErrorText
  /\ ~isLoading
  /\ aiCall = "none"

====
